---------------------------- MODULE Spec2Model ----------------------------
(***************************************************************************)
(* Skyscrapers.py: a Streamlit page that loads an uploaded workbook of     *)
(* building records and renders tables, highlights, a map and charts.      *)
(* The script is re-executed from top to bottom on every interaction; one  *)
(* action of this module is one interaction followed by the whole run.     *)
(*                                                                         *)
(* A data frame is [columns, rows]; a row is [index, cells] where cells is *)
(* a function from column names to values and a blank cell (NaN) is a      *)
(* column missing from the function's domain.  Letters spells a column     *)
(* name out, so that lower() and the substring test are computed.          *)
(***************************************************************************)
EXTENDS Integers, Sequences, FiniteSets, TLC

\* Largest number of data rows of the workbook on the user's disk.
MaxRows == 3
\* Largest number of times pd.read_excel is let run in one session.
MaxParses == 2

\* ----------------------------------------------------------------- text

Upper == <<"A","B","C","D","E","F","G","H","I","J","K","L","M",
           "N","O","P","Q","R","S","T","U","V","W","X","Y","Z">>
Lowercase == <<"a","b","c","d","e","f","g","h","i","j","k","l","m",
               "n","o","p","q","r","s","t","u","v","w","x","y","z">>

\* str.lower(), character by character.
LowerChar(ch) ==
    IF \E k \in DOMAIN Upper : Upper[k] = ch
    THEN Lowercase[CHOOSE k \in DOMAIN Upper : Upper[k] = ch]
    ELSE ch

Lower(s) == [i \in DOMAIN s |-> LowerChar(s[i])]

\* sub in s
Contains(sub, s) ==
    \E i \in 0..(Len(s) - Len(sub)) : SubSeq(s, i + 1, i + Len(sub)) = sub

height_word == <<"h","e","i","g","h","t">>

\* Column names of the workbook ...
name_col == "name"
city_col == "location.city"
lat_col  == "location.latitude"
lon_col  == "location.longitude"
measure_col == "HEIGHT_m"
floors_col == "floors"
\* ... and the names the script renames them to.
latitude_col  == "latitude"
longitude_col == "longitude"
Name_col      == "Name"
Location_col  == "Location"
Height_col    == "Height"
City_col      == "City"
Number_col    == "Number of Skyscrapers"

\* The characters of a workbook column name, one by one.
Letters(col) ==
    CASE col = name_col -> <<"n","a","m","e">>
      [] col = city_col -> <<"l","o","c","a","t","i","o","n",".","c","i","t","y">>
      [] col = lat_col ->
            <<"l","o","c","a","t","i","o","n",".","l","a","t","i","t","u","d","e">>
      [] col = lon_col ->
            <<"l","o","c","a","t","i","o","n",".","l","o","n","g","i","t","u","d","e">>
      [] col = measure_col -> <<"H","E","I","G","H","T","_","m">>
      [] col = floors_col -> <<"f","l","o","o","r","s">>

ColumnNames == {name_col, city_col, lat_col, lon_col, measure_col, floors_col}

\* 'height' in col.lower(), for each column name a workbook may use.
NamedLikeHeight == [col \in ColumnNames |-> Contains(height_word, Lower(Letters(col)))]

None == "None"

\* -------------------------------------------------------------- numbers

RECURSIVE GCD(_, _)
GCD(a, b) == IF b = 0 THEN a ELSE GCD(b, a % b)

Abs(x) == IF x < 0 THEN -x ELSE x

\* The quotient n/d as a fraction in lowest terms (d > 0).
Fraction(n, d) ==
    LET g == GCD(Abs(n), d)
    IN  [num |-> n \div g, den |-> d \div g]

RECURSIVE Sum(_)
Sum(s) == IF s = <<>> THEN 0 ELSE s[1] + Sum(Tail(s))

\* Series.mean(): sum divided by count; of no values, NaN (written 0/0).
Mean(s) == IF s = <<>> THEN [num |-> 0, den |-> 0] ELSE Fraction(Sum(s), Len(s))

\* Series.max()
Max(s) == CHOOSE m \in {s[i] : i \in DOMAIN s} : \A i \in DOMAIN s : s[i] <= m

Min(s) == CHOOSE m \in {s[i] : i \in DOMAIN s} : \A i \in DOMAIN s : m <= s[i]

\* format(x, ".2f") of a non-negative quotient, in hundredths: the nearest
\* hundredth (a mean of fewer than eight whole numbers is never halfway).
Format2f(q) == (200 * q.num + q.den) \div (2 * q.den)

\* ---------------------------------------------------------------- pandas

Range(s) == {s[i] : i \in DOMAIN s}

Shape(df) == <<Len(df.rows), Len(df.columns)>>

Empty(df) == Len(df.rows) = 0 \/ Len(df.columns) = 0

\* df[col] as the sequence of its values, in row order.
Col(df, col) == [i \in DOMAIN df.rows |-> df.rows[i].cells[col]]

\* The values of df[col] that are not blank, in row order: what the
\* aggregates of a column see (they skip NaN).
Values(df, col) == Col([df EXCEPT !.rows = SelectSeq(@, LAMBDA r : col \in DOMAIN r.cells)], col)

HasColumn(df, col) == \E i \in DOMAIN df.columns : df.columns[i] = col

\* df.dropna(subset=...)
DropNa(df, subset) ==
    [df EXCEPT !.rows = SelectSeq(@, LAMBDA r : \A c \in subset : c \in DOMAIN r.cells)]

\* Series.unique(): the values in order of first appearance.
RECURSIVE Unique(_)
Unique(s) ==
    IF s = <<>> THEN <<>>
    ELSE LET u == Unique(SubSeq(s, 1, Len(s) - 1))
         IN  IF s[Len(s)] \in Range(u) THEN u ELSE Append(u, s[Len(s)])

\* df.rename(columns=mapper); mapper is a function from old to new names.
NewName(mapper, c) == IF c \in DOMAIN mapper THEN mapper[c] ELSE c

Rename(df, mapper) ==
    [columns |-> [i \in DOMAIN df.columns |-> NewName(mapper, df.columns[i])],
     rows |-> [i \in DOMAIN df.rows |->
        LET old == df.rows[i].cells
        IN  [index |-> df.rows[i].index,
             cells |-> [c \in {NewName(mapper, k) : k \in DOMAIN old} |->
                          old[CHOOSE k \in DOMAIN old : NewName(mapper, k) = c]]]]]

\* df[cols]
Project(df, cols) ==
    [columns |-> cols,
     rows |-> [i \in DOMAIN df.rows |->
        [index |-> df.rows[i].index,
         cells |-> [c \in Range(cols) \cap DOMAIN df.rows[i].cells |-> df.rows[i].cells[c]]]]]

\* df.head(n)
HeadRows(df, n) ==
    [df EXCEPT !.rows = SubSeq(@, 1, IF Len(@) < n THEN Len(@) ELSE n)]

\* The orders n rows may be put in.
Perms(n) == Permutations(1..n)

\* Mutant of SortValues: the direction is ignored, the sort always ascends.
SortValuesAscending(df, by, asc) ==
    LET n == Len(df.rows)
        inOrder(p) == \A i \in 1..(n - 1) :
                        df.rows[p[i]].cells[by] <= df.rows[p[i + 1]].cells[by]
    IN  {[df EXCEPT !.rows = [i \in 1..n |-> df.rows[p[i]]]] :
            p \in {q \in Perms(n) : inOrder(q)}}

\* df.sort_values(by=..., ascending=...).  The default kind is quicksort,
\* which is not stable: rows with equal keys come out in an order the
\* build decides, so every order of the ties is a possible result.
SortValues(df, by, asc) ==
    LET n == Len(df.rows)
        key(i) == df.rows[i].cells[by]
        inOrder(p) == \A i \in 1..(n - 1) :
                        IF asc THEN key(p[i]) <= key(p[i + 1])
                               ELSE key(p[i]) >= key(p[i + 1])
    IN  {[df EXCEPT !.rows = [i \in 1..n |-> df.rows[p[i]]]] :
            p \in {q \in Perms(n) : inOrder(q)}}


\* df[df[col] >= bound]
AtLeast(df, col, bound) ==
    [df EXCEPT !.rows = SelectSeq(@, LAMBDA r : r.cells[col] >= bound)]

\* df[df[col] == value]
EqualTo(df, col, value) ==
    [df EXCEPT !.rows = SelectSeq(@, LAMBDA r : r.cells[col] = value)]

\* Mutant of IdxMax: the label of the last occurrence of the maximum.
IdxMaxLast(df, col) ==
    LET s == Col(df, col)
        m == Max(s)
        last == CHOOSE i \in DOMAIN s : s[i] = m /\ \A j \in (i + 1)..Len(s) : s[j] # m
    IN  df.rows[last].index

\* Series.idxmax(): the index label of the first occurrence of the maximum.
IdxMax(df, col) ==
    LET s == Col(df, col)
        m == Max(s)
        first == CHOOSE i \in DOMAIN s : s[i] = m /\ \A j \in 1..(i - 1) : s[j] # m
    IN  df.rows[first].index

\* df.loc[label]
Loc(df, label) ==
    df.rows[CHOOSE i \in DOMAIN df.rows : df.rows[i].index = label].cells

\* reset_index(): labels 0, 1, 2, ... in row order.
ResetIndex(rows) == [i \in DOMAIN rows |-> [rows[i] EXCEPT !.index = i - 1]]

\* The city names the workbooks use, in the order str comparison puts them
\* (groupby sorts its group keys).
CityOrder == <<"LA", "NYC">>

\* df.groupby(by)[col].mean().reset_index()
GroupByMean(df, by, col) ==
    LET keys == SelectSeq(CityOrder, LAMBDA c : c \in Range(Col(df, by)))
    IN  [columns |-> <<by, col>>,
         rows |-> [k \in DOMAIN keys |->
            [index |-> k - 1,
             cells |-> (by :> keys[k]) @@
                       (col :> Mean(Col(EqualTo(df, by, keys[k]), col)))]]]

\* df[col].value_counts().reset_index(): one row per distinct value, the
\* larger counts first (a sort_values on the counts, ties as the build decides).
ValueCounts(df, col) ==
    LET vals == Unique(Col(df, col))
        tally == [columns |-> <<City_col, Number_col>>,
                  rows |-> [k \in DOMAIN vals |->
                     [index |-> k - 1,
                      cells |-> (City_col :> vals[k]) @@
                                (Number_col :> Len(EqualTo(df, col, vals[k]).rows))]]]
    IN  {[t EXCEPT !.rows = ResetIndex(@)] : t \in SortValues(tally, Number_col, FALSE)}

\* Series.hist(bins=n): the number of values in each of n equal-width bins
\* between the least and the greatest value (numpy widens an empty range by
\* one half on each side; the greatest value belongs to the last bin).
Hist(s, bins) ==
    LET lo == Min(s)
        hi == Max(s)
        bin(v) == IF lo = hi THEN bins \div 2
                  ELSE IF v = hi THEN bins - 1
                  ELSE ((v - lo) * bins) \div (hi - lo)
    IN  [b \in 0..(bins - 1) |-> Cardinality({i \in DOMAIN s : bin(s[i]) = b})]

\* ------------------------------------------------------------- workbooks

\* The building records a workbook row may hold.  Every record has a name, a
\* city and a whole number of metres in its measurement column; blank names
\* the coordinate cell left empty, if any.  The records with an empty
\* coordinate are the tallest, so that one that is not dropped shows.
Cities == {"NYC", "LA"}
Buildings ==
    {[city |-> "NYC", height |-> 50, blank |-> "none"],
     [city |-> "NYC", height |-> 100, blank |-> "none"],
     [city |-> "NYC", height |-> 300, blank |-> "none"],
     [city |-> "LA", height |-> 200, blank |-> "none"],
     [city |-> "NYC", height |-> 500, blank |-> "latitude"],
     [city |-> "LA", height |-> 500, blank |-> "longitude"]}

Names == <<"A", "B", "C", "D", "E", "F">>
Latitude == [c \in Cities |-> IF c = "NYC" THEN 41 ELSE 34]
Longitude == [c \in Cities |-> IF c = "NYC" THEN -74 ELSE -118]

\* Header rows: all expected columns; no column named like a height; no
\* location.city column; neither.
Headers ==
    {<<name_col, city_col, lat_col, lon_col, measure_col>>,
     <<name_col, city_col, lat_col, lon_col, floors_col>>,
     <<name_col, lat_col, lon_col, measure_col>>,
     <<name_col, lat_col, lon_col, floors_col>>}

\* The cells of the k-th data row holding building b under the given header.
RowCells(header, k, b) ==
    LET filled == {c \in Range(header) :
                      /\ ~(c = lat_col /\ b.blank = "latitude")
                      /\ ~(c = lon_col /\ b.blank = "longitude")}
    IN  [c \in filled |->
            CASE c = name_col -> Names[k]
              [] c = city_col -> b.city
              [] c = lat_col  -> Latitude[b.city]
              [] c = lon_col  -> Longitude[b.city]
              [] OTHER        -> b.height]

Tables == UNION {[1..n -> Buildings] : n \in 1..MaxRows}

\* A file that is not a workbook, and the workbooks.
CorruptFile == [valid |-> FALSE, header |-> <<>>, body |-> <<>>]
Workbooks ==
    {[valid |-> TRUE, header |-> h,
      body |-> [k \in DOMAIN t |-> RowCells(h, k, t[k])]] : h \in Headers, t \in Tables}
Files == {CorruptFile} \cup Workbooks

\* ---------------------------------------------------------------- widgets

SliderFloor == 0
SliderDefault == 100
HistBins == 10
SampleRows == 5
TopCities == 10

\* Positions the user moves the minimum-height slider to.
SliderStops == {0, 100, 200}

\* A request holds the widget values the browser sends with a run: for each
\* widget the user has set, its value.  A widget the request does not name,
\* or names with a value it does not offer, returns its default.  A widget
\* without a key is identified by its arguments: called with other arguments
\* than in the run before, it is a new widget and returns its default.

\* st.selectbox(label, options): the first option by default, None without options.
Selectbox(options, req) ==
    IF "city" \in DOMAIN req /\ req.city \in Range(options) THEN req.city
    ELSE IF options = <<>> THEN None
    ELSE options[1]

\* st.radio(label, ["Ascending", "Descending"]): the first option by default.
Radio(req) ==
    IF "sort" \in DOMAIN req THEN req.sort ELSE "Ascending"

\* st.slider(label, min_value, max_value, value): the slider widens its
\* bounds to hold the default value before it offers them.
SliderRange(args) ==
    (IF args.value < args.min_value THEN args.value ELSE args.min_value)
    ..(IF args.value > args.max_value THEN args.value ELSE args.max_value)

\* The request names the slider its value was set on by that slider's
\* arguments; the value is kept only by a slider called with the same ones.
Slider(args, req) ==
    IF /\ "min" \in DOMAIN req
       /\ req.slider = args
       /\ req.min \in SliderRange(args)
    THEN req.min
    ELSE args.value

\* ----------------------------------------------------------------- script

\* pd.read_excel(file, engine="openpyxl", header=0): the first row names
\* the columns, the data rows are labelled 0, 1, 2, ...
ReadExcel(file) ==
    [columns |-> file.header,
     rows |-> [k \in DOMAIN file.body |-> [index |-> k - 1, cells |-> file.body[k]]]]

\* Mutant of load_data: no memoization, every call parses the file.
load_data_uncached(file, store) ==
    IF file.valid
    THEN LET data == ReadExcel(file)
             summary == Shape(data)
         IN  [ok |-> TRUE, parsed |-> TRUE, value |-> <<data, summary>>,
              store |-> (file :> <<data, summary>>) @@ store]
    ELSE [ok |-> FALSE, parsed |-> TRUE, value |-> <<>>, store |-> store]

\* load_data under @st.cache_data: a file met before returns its stored
\* result; otherwise the file is parsed, and the result stored when the
\* parse succeeds.  A failed parse renders the error and stops the run.
load_data(file, store) ==
    IF file \in DOMAIN store
    THEN [ok |-> TRUE, parsed |-> FALSE, value |-> store[file], store |-> store]
    ELSE IF file.valid
    THEN LET data == ReadExcel(file)
             summary == Shape(data)
         IN  [ok |-> TRUE, parsed |-> TRUE, value |-> <<data, summary>>,
              store |-> (file :> <<data, summary>>) @@ store]
    ELSE [ok |-> FALSE, parsed |-> TRUE, value |-> <<>>, store |-> store]

\* Mutant of CleanCoordinates: only the latitude is required.
CleanLatitudeOnly(data) == DropNa(data, {lat_col})

\* data.dropna(subset=['location.latitude', 'location.longitude'])
CleanCoordinates(data) == DropNa(data, {lat_col, lon_col})

\* [col for col in data.columns if 'height' in col.lower()]
HeightColumns(data) ==
    SelectSeq(data.columns, LAMBDA col : NamedLikeHeight[col])

\* Mutant of FilteredData: the city filter is left out.
FilteredDataAllCities(data, selected_city) ==
    Rename(data, (lat_col :> latitude_col) @@ (lon_col :> longitude_col))

\* data[data['location.city'] == selected_city], coordinates renamed
FilteredData(data, selected_city) ==
    Rename(EqualTo(data, city_col, selected_city),
           (lat_col :> latitude_col) @@ (lon_col :> longitude_col))

\* filtered_data.sort_values(by=height_column_name, ascending=ascending),
\* columns renamed for display: the results the sort may give
SortedData(filtered_data, height_column_name, ascending) ==
    {Rename(t, (name_col :> Name_col) @@ (city_col :> Location_col)
                 @@ (height_column_name :> Height_col)) :
        t \in SortValues(filtered_data, height_column_name, ascending)}

columns_to_display == <<Name_col, Location_col, Height_col>>

\* Mutant of CityGroup: the groups are summed, not averaged.
CityGroupSums(data, height_column_name) ==
    LET keys == SelectSeq(CityOrder, LAMBDA c : c \in Range(Col(data, city_col)))
    IN  [columns |-> <<Location_col, Height_col>>,
         rows |-> [k \in DOMAIN keys |->
            [index |-> k - 1,
             cells |-> (Location_col :> keys[k]) @@
                       (Height_col :> Fraction(Sum(Col(EqualTo(data, city_col, keys[k]),
                                                       height_column_name)), 1))]]]

\* data.groupby('location.city')[height_column_name].mean().reset_index(), renamed
CityGroup(data, height_column_name) ==
    Rename(GroupByMean(data, city_col, height_column_name),
           (city_col :> Location_col) @@ (height_column_name :> Height_col))

\* The values of the Key Highlights table.
KeyHighlights(filtered_data, height_column_name) ==
    LET tallest_skyscraper ==
            Loc(filtered_data, IdxMax(filtered_data, height_column_name))
    IN  [total_skyscrapers |-> Len(filtered_data.rows),
         tallest_name |-> tallest_skyscraper[name_col],
         tallest_height |-> tallest_skyscraper[height_column_name],
         average_height |-> Mean(Col(filtered_data, height_column_name))]

\* int(x) of a height; the workbooks hold whole numbers of metres.
IntPart(x) == x

\* The arguments of the minimum-height slider.
SliderArgs(filtered_data, height_column_name) ==
    [min_value |-> SliderFloor,
     max_value |-> IntPart(Max(Col(filtered_data, height_column_name))),
     value |-> SliderDefault]

\* sorted_data[sorted_data['Height'] >= min_height]
FilteredByHeight(sorted_data, min_height) ==
    AtLeast(sorted_data, Height_col, min_height)

\* pdk.ViewState(latitude=..., longitude=..., zoom=10, pitch=45)
MapView(filtered_by_height) ==
    [latitude |-> Mean(Values(filtered_by_height, latitude_col)),
     longitude |-> Mean(Values(filtered_by_height, longitude_col))]

\* The lines of the sample list: index + 1, name, height of the first rows.
SampleLines(filtered_by_height) ==
    LET first == HeadRows(filtered_by_height, SampleRows).rows
    IN  [i \in DOMAIN first |->
            [el |-> "sample", number |-> first[i].index + 1,
             name |-> first[i].cells[Name_col],
             height |-> first[i].cells[Height_col]]]

\* data['location.city'].value_counts().reset_index(), columns set, head(10):
\* the results the count may give
TopCityCounts(data) ==
    {HeadRows(t, TopCities) : t \in ValueCounts(data, city_col)}

\* The height-dependent part of the page below the Key Highlights: slider,
\* map, filtered table, histogram and sample list (lines 181-239).
HeightSection(filtered_data, sorted_data, height_column_name, selected_city, req) ==
    LET args == SliderArgs(filtered_data, height_column_name)
        min_height == Slider(args, req)
        filtered_by_height == FilteredByHeight(sorted_data, min_height)
        shown == ~Empty(filtered_by_height)
    IN  [min_height |-> min_height,
         slider |-> args,
         out |->
            <<[el |-> "slider_header"],
              [el |-> "slider", min_value |-> args.min_value,
               max_value |-> args.max_value, value |-> args.value],
              [el |-> "map_header"]>>
            \o (IF shown
                THEN <<[el |-> "map", data |-> filtered_by_height,
                        view |-> MapView(filtered_by_height)]>>
                ELSE <<[el |-> "map_empty", min |-> min_height, city |-> selected_city]>>)
            \o <<[el |-> "filtered_header", city |-> selected_city, min |-> min_height]>>
            \o (IF shown
                THEN <<[el |-> "filtered_table", data |-> filtered_by_height],
                       [el |-> "hist_header"],
                       [el |-> "histogram",
                        counts |-> Hist(Col(filtered_by_height, Height_col), HistBins)]>>
                ELSE <<>>)
            \o <<[el |-> "sample_header"]>>
            \o SampleLines(filtered_by_height)]

\* The pie chart section at the end of the script (lines 243-271), for the
\* value data holds there and one result of the city count.
PieSection(data, top_cities) ==
    IF ~Empty(data)
    THEN <<[el |-> "pie_header"]>>
         \o (IF HasColumn(data, city_col)
             THEN <<[el |-> "pie", labels |-> Col(top_cities, City_col),
                     sizes |-> Col(top_cities, Number_col)]>>
             ELSE <<[el |-> "city_missing"]>>)
    ELSE <<[el |-> "data_missing"]>>

\* What every run renders before it looks at the upload.
PageTop == <<[el |-> "title"], [el |-> "file_uploader"]>>

\* The run after load_data returned (data, data_summary), under the given
\* request (lines 55-239 and 243-271): the set of its possible results, each
\* with how the run ended, what it rendered and what its widgets returned.
\* data['location.city'] raises KeyError when the column is missing, and
\* nothing after line 72 runs.
Script(loaded, data_summary, req) ==
    LET data == CleanCoordinates(loaded)
        height_columns == HeightColumns(data)
        has_height == height_columns # <<>>
        height_column_name == height_columns[1]
        start ==
            PageTop
            \o <<[el |-> "summary", rows |-> data_summary[1], columns |-> data_summary[2]]>>
            \o (IF has_height THEN <<>> ELSE <<[el |-> "height_error"]>>)
    IN  IF ~HasColumn(data, city_col)
        THEN {[status |-> "exception", line |-> 72, out |-> start, widgets |-> <<>>]}
        ELSE
        LET cities == Unique(Col(data, city_col))
            selected_city == Selectbox(cities, req)
            filtered_data == FilteredData(data, selected_city)
            sort_order == Radio(req)
            ascending == sort_order = "Ascending"
            nonempty == ~Empty(filtered_data)
            Page(sorted_data, top_cities) ==
                LET lower == HeightSection(filtered_data, sorted_data,
                                           height_column_name, selected_city, req)
                    h == KeyHighlights(filtered_data, height_column_name)
                IN  [status |-> "completed",
                     line |-> 271,
                     widgets |->
                        [city |-> selected_city, sort |-> sort_order]
                        @@ (IF nonempty /\ has_height
                            THEN [min |-> lower.min_height, slider |-> lower.slider]
                            ELSE <<>>),
                     out |->
                        start
                        \o <<[el |-> "city_select", options |-> cities],
                             [el |-> "sort_radio"]>>
                        \o (IF has_height
                            THEN <<[el |-> "sorted_caption", city |-> selected_city,
                                    order |-> sort_order],
                                   [el |-> "sorted_table",
                                    data |-> Project(sorted_data, columns_to_display)],
                                   [el |-> "average_header"],
                                   [el |-> "average_table",
                                    data |-> CityGroup(data, height_column_name)]>>
                            ELSE <<[el |-> "sort_skipped"]>>)
                        \o (IF nonempty THEN <<[el |-> "balloons"]>> ELSE <<>>)
                        \o <<[el |-> "highlights_header"]>>
                        \o (IF nonempty /\ has_height
                            THEN <<[el |-> "highlights",
                                    total |-> h.total_skyscrapers,
                                    tallest_name |-> h.tallest_name,
                                    tallest_height |-> h.tallest_height,
                                    average |-> Format2f(h.average_height)]>>
                            ELSE <<[el |-> "no_data"]>>)
                        \o (IF nonempty /\ has_height THEN lower.out ELSE <<>>)
                        \o PieSection(data, top_cities)]
        IN  {Page(sorted_data, top_cities) :
                sorted_data \in
                    (IF has_height
                     THEN SortedData(filtered_data, height_column_name, ascending)
                     ELSE {filtered_data}),
                top_cities \in (IF Empty(data) THEN {data} ELSE TopCityCounts(data))}

\* The run without an upload: the prompt, and the warning that ends the script.
NoUpload ==
    [status |-> "completed", line |-> 271, widgets |-> <<>>,
     out |-> PageTop \o <<[el |-> "upload_prompt"], [el |-> "data_missing"]>>]

\* Mutant of LoadFailed: the error is shown but the run is not stopped;
\* load_data returns (None, None) and the script goes on to its last lines.
LoadFailedContinues ==
    [status |-> "completed", line |-> 271, widgets |-> <<>>,
     out |-> PageTop \o <<[el |-> "load_error"], [el |-> "data_missing"]>>]

\* The run whose load_data failed: st.error, then st.stop() ends the run.
LoadFailed ==
    [status |-> "stopped", line |-> 45, widgets |-> <<>>,
     out |-> PageTop \o <<[el |-> "load_error"]>>]

\* ------------------------------------------------------------------ state

VARIABLES
    disk,           \* the file on the user's disk that the session works with
    uploaded_file,  \* the file uploader's value: <<>> (None) or <<file>>
    cache,          \* the store of @st.cache_data: file -> (data, summary)
    parse_count,    \* how many times pd.read_excel has run
    loaded,         \* what load_data returned in the latest run, <<>> if nothing
    status,         \* how the latest run ended: completed, stopped, exception
    line,           \* the line of the script the latest run ended at
    out,            \* the elements the latest run rendered, in order
    widgets         \* the values the widgets of the latest run returned, and
                    \* the arguments of the slider that returned its value

vars == <<disk, uploaded_file, cache, parse_count, loaded, status, line, out, widgets>>

Ends(result) ==
    /\ status' = result.status
    /\ line' = result.line
    /\ out' = result.out
    /\ widgets' = result.widgets

\* One execution of the script with the uploader holding upload and the
\* browser sending req.
Run(upload, req) ==
    IF upload = <<>>
    THEN /\ Ends(NoUpload)
         /\ loaded' = <<>>
         /\ UNCHANGED <<cache, parse_count>>
    ELSE LET r == load_data(upload[1], cache)
         IN  /\ r.parsed => parse_count < MaxParses
             /\ cache' = r.store
             /\ parse_count' = parse_count + (IF r.parsed THEN 1 ELSE 0)
             /\ loaded' = r.value
             /\ IF r.ok
                THEN \E result \in Script(r.value[1], r.value[2], req) : Ends(result)
                ELSE Ends(LoadFailed)

Rendered(kind) == {out[i] : i \in {j \in DOMAIN out : out[j].el = kind}}

Init ==
    /\ disk \in Files
    /\ uploaded_file = <<>>
    /\ cache = <<>>
    /\ parse_count = 0
    /\ loaded = <<>>
    /\ status = NoUpload.status
    /\ line = NoUpload.line
    /\ out = NoUpload.out
    /\ widgets = NoUpload.widgets

\* The user uploads the file; every widget starts from its default.
Upload ==
    /\ uploaded_file = <<>>
    /\ uploaded_file' = <<disk>>
    /\ Run(<<disk>>, <<>>)
    /\ UNCHANGED disk

\* The user removes the upload.
Remove ==
    /\ uploaded_file # <<>>
    /\ uploaded_file' = <<>>
    /\ Run(<<>>, <<>>)
    /\ UNCHANGED disk

\* The user picks another city in the select box; the slider of the new
\* city keeps its position only if it is called with the same arguments.
SelectCity ==
    /\ "city" \in DOMAIN widgets
    /\ \E box \in Rendered("city_select") : \E c \in Range(box.options) :
          /\ c # widgets.city
          /\ Run(uploaded_file, [widgets EXCEPT !.city = c])
    /\ UNCHANGED <<disk, uploaded_file>>

\* The user flips the sort direction.
SelectSort ==
    /\ "sort" \in DOMAIN widgets
    /\ \E o \in {"Ascending", "Descending"} :
          /\ o # widgets.sort
          /\ Run(uploaded_file, [widgets EXCEPT !.sort = o])
    /\ UNCHANGED <<disk, uploaded_file>>

\* The user moves the minimum-height slider.
MoveSlider ==
    /\ "min" \in DOMAIN widgets
    /\ \E s \in Rendered("slider") : \E m \in SliderStops \cap SliderRange(s) :
          /\ m # widgets.min
          /\ Run(uploaded_file, [widgets EXCEPT !.min = m])
    /\ UNCHANGED <<disk, uploaded_file>>

Next ==
    \/ Upload
    \/ Remove
    \/ SelectCity
    \/ SelectSort
    \/ MoveSlider

Spec == Init /\ [][Next]_vars

\* ------------------------------------------------------------- properties
\* The properties read the workbook on the disk directly: row k of its body
\* (k = 1, 2, ...) carries the index label k - 1 in every frame made from it.

\* The rows of the workbook that have both coordinates.
Kept == {k \in DOMAIN disk.body : {lat_col, lon_col} \subseteq DOMAIN disk.body[k]}

\* The rows with both coordinates whose location.city is c.
InCity(c) ==
    {k \in Kept : city_col \in DOMAIN disk.body[k] /\ disk.body[k][city_col] = c}

HeightOf(k) == disk.body[k][measure_col]

RECURSIVE TotalHeight(_)
TotalHeight(S) ==
    IF S = {} THEN 0
    ELSE LET k == CHOOSE x \in S : TRUE
         IN  HeightOf(k) + TotalHeight(S \ {k})

\* The fraction q is the arithmetic mean of the heights of the rows S.
IsMeanOf(q, S) ==
    /\ S # {}
    /\ q.den > 0
    /\ q.num * Cardinality(S) = TotalHeight(S) * q.den

HasHeightColumn == \E c \in Range(disk.header) : NamedLikeHeight[c]

HasCityColumn == city_col \in Range(disk.header)

\* The latest run read a workbook and ran to the end of the script.
Completed == uploaded_file # <<>> /\ status = "completed"

Labels(e) == {e.data.rows[i].index + 1 : i \in DOMAIN e.data.rows}

\* C1: no row with a blank location.latitude or location.longitude
\* contributes to anything a run displays: the rows of the sorted table, the
\* map, the height-filtered table and the sample list are rows with both
\* coordinates; the select box offers, and the highlights, the per-city
\* averages, the histogram and the pie chart count and average, only such rows.
C1_BlankCoordinateRowsNeverShown ==
    /\ \A e \in Rendered("sorted_table") \cup Rendered("map")
                  \cup Rendered("filtered_table") : Labels(e) \subseteq Kept
    /\ \A e \in Rendered("sample") : e.number \in Kept
    /\ \A e \in Rendered("city_select") :
          Range(e.options) = {disk.body[k][city_col] : k \in Kept}
    /\ \A e \in Rendered("highlights") :
          /\ e.total = Cardinality(InCity(widgets.city))
          /\ \E k \in InCity(widgets.city) :
                e.tallest_name = Names[k] /\ e.tallest_height = HeightOf(k)
    /\ \A e \in Rendered("average_table") : \A i \in DOMAIN e.data.rows :
          IsMeanOf(e.data.rows[i].cells[Height_col],
                   InCity(e.data.rows[i].cells[Location_col]))
    /\ \A e \in Rendered("histogram") :
          Sum([b \in 1..HistBins |-> e.counts[b - 1]])
            = Cardinality({k \in InCity(widgets.city) : HeightOf(k) >= widgets.min})
    /\ \A e \in Rendered("pie") : \A i \in DOMAIN e.labels :
          e.sizes[i] = Cardinality(InCity(e.labels[i]))

\* A run that showed every output for a city one of whose rows has a blank coordinate.
C1_Witness ==
    /\ Completed
    /\ \E k \in DOMAIN disk.body \ Kept : disk.body[k][city_col] = widgets.city
    /\ \A kind \in {"sorted_table", "average_table", "highlights", "map",
                    "filtered_table", "histogram", "sample", "pie"} :
          Rendered(kind) # {}

\* C2: with a height column, the table shown for the selected city holds
\* exactly the rows with both coordinates whose location.city is the selected
\* city, each once, with their name, city and height, ordered by
\* non-decreasing height under Ascending and non-increasing under Descending.
C2_SortedTableIsCityRowsInOrder ==
    /\ Completed /\ HasHeightColumn => Rendered("sorted_table") # {}
    /\ \A e \in Rendered("sorted_table") :
          LET rows == e.data.rows
          IN  /\ Labels(e) = InCity(widgets.city)
              /\ Len(rows) = Cardinality(InCity(widgets.city))
              /\ \A i \in DOMAIN rows :
                    LET k == rows[i].index + 1
                    IN  rows[i].cells = [Name |-> Names[k],
                                         Location |-> widgets.city,
                                         Height |-> HeightOf(k)]
              /\ \A i \in 1..(Len(rows) - 1) :
                    IF widgets.sort = "Ascending"
                    THEN rows[i].cells.Height <= rows[i + 1].cells.Height
                    ELSE rows[i].cells.Height >= rows[i + 1].cells.Height

\* The example: A/NYC/300, B/NYC/100, C/LA/200, city NYC, Ascending: [B(100), A(300)].
C2_Witness ==
    /\ Completed /\ HasHeightColumn /\ HasCityColumn
    /\ Len(disk.body) = 3
    /\ Kept = {1, 2, 3}
    /\ <<disk.body[1][city_col], HeightOf(1)>> = <<"NYC", 300>>
    /\ <<disk.body[2][city_col], HeightOf(2)>> = <<"NYC", 100>>
    /\ <<disk.body[3][city_col], HeightOf(3)>> = <<"LA", 200>>
    /\ widgets.city = "NYC" /\ widgets.sort = "Ascending"
    /\ \E e \in Rendered("sorted_table") :
          /\ Len(e.data.rows) = 2
          /\ <<e.data.rows[1].cells.Name, e.data.rows[1].cells.Height>> = <<"B", 100>>
          /\ <<e.data.rows[2].cells.Name, e.data.rows[2].cells.Height>> = <<"A", 300>>

\* C3: with a height column, the per-city average table has exactly one row
\* for each city of the table's rows (those with both coordinates), and its
\* value is the sum of that city's heights divided by their number.
C3_CityAverageIsArithmeticMean ==
    /\ Completed /\ HasHeightColumn => Rendered("average_table") # {}
    /\ \A e \in Rendered("average_table") :
          LET rows == e.data.rows
          IN  /\ {rows[i].cells.Location : i \in DOMAIN rows}
                    = {disk.body[k][city_col] : k \in Kept}
              /\ \A i, j \in DOMAIN rows :
                    rows[i].cells.Location = rows[j].cells.Location => i = j
              /\ \A i \in DOMAIN rows :
                    IsMeanOf(rows[i].cells.Height, InCity(rows[i].cells.Location))

\* The example: the NYC heights 300 and 100 average to 200, beside another city.
C3_Witness ==
    /\ Completed /\ HasHeightColumn /\ HasCityColumn
    /\ {HeightOf(k) : k \in InCity("NYC")} = {100, 300}
    /\ Cardinality(InCity("NYC")) = 2
    /\ InCity("LA") # {}
    /\ \E e \in Rendered("average_table") : \E i \in DOMAIN e.data.rows :
          /\ e.data.rows[i].cells.Location = "NYC"
          /\ e.data.rows[i].cells.Height = [num |-> 200, den |-> 1]

\* The row of S with the greatest height, the first in the table among equals.
Tallest(S) ==
    CHOOSE k \in S : \A j \in S : HeightOf(j) < HeightOf(k) \/ (HeightOf(j) = HeightOf(k) /\ k <= j)

\* C4: the key highlights are shown exactly when the city-filtered set is
\* non-empty and a height column exists, and show the number of its rows,
\* the name and height of its tallest row (the first in the table among
\* equals) and its mean height, to two decimals; the values are fixed by the
\* workbook and the city alone, whatever the sort direction and the slider.
C4_HighlightsOfCityFilteredSet ==
    /\ Completed /\ HasCityColumn =>
          (Rendered("highlights") # {}
             <=> (HasHeightColumn /\ InCity(widgets.city) # {}))
    /\ \A e \in Rendered("highlights") :
          LET S == InCity(widgets.city)
              diff == 100 * TotalHeight(S) - e.average * Cardinality(S)
          IN  /\ e.total = Cardinality(S)
              /\ e.tallest_name = Names[Tallest(S)]
              /\ e.tallest_height = HeightOf(Tallest(S))
              /\ 2 * Abs(diff) <= Cardinality(S)

\* Two rows share the maximum, under Descending and a moved slider.
C4_Witness ==
    /\ Rendered("highlights") # {}
    /\ widgets.sort = "Descending"
    /\ widgets.min # SliderDefault
    /\ \E j, k \in InCity(widgets.city) :
          /\ j # k
          /\ HeightOf(j) = HeightOf(k)
          /\ \A m \in InCity(widgets.city) : HeightOf(m) <= HeightOf(k)
    /\ \E k \in InCity(widgets.city) : HeightOf(k) < HeightOf(Tallest(InCity(widgets.city)))

\* C5: when the upload does not parse, the run shows the error and halts:
\* it renders nothing that comes after the load_data call.
C5_ParseFailureHalts ==
    uploaded_file # <<>> /\ ~uploaded_file[1].valid =>
        /\ status = "stopped"
        /\ Rendered("load_error") # {}
        /\ \A i \in DOMAIN out : out[i].el \in {"title", "file_uploader", "load_error"}
        /\ DOMAIN widgets = {}

\* A corrupt file is uploaded and the run has ended.
C5_Witness ==
    /\ uploaded_file = <<CorruptFile>>
    /\ parse_count > 0
    /\ Rendered("load_error") # {}

\* C6 as claimed: a workbook without a column named like a height is run
\* to the end without error, with a warning that sorting is skipped and
\* with no sorted table, average table, highlights table, slider, map,
\* histogram or any other chart.
C6_Claimed ==
    uploaded_file # <<>> /\ disk.valid /\ ~HasHeightColumn =>
        /\ status = "completed"
        /\ Rendered("sort_skipped") # {}
        /\ \A kind \in {"sorted_table", "average_table", "highlights", "slider",
                        "map", "histogram", "pie"} : Rendered(kind) = {}

\* C7 as claimed: a workbook without a location.city column gets a warning
\* and the run goes on without the features that need the city.
C7_Claimed ==
    uploaded_file # <<>> /\ disk.valid /\ ~HasCityColumn =>
        /\ status = "completed"
        /\ Rendered("city_missing") # {}
        /\ \A kind \in {"city_select", "average_table", "pie"} : Rendered(kind) = {}

\* The order of the rows of the sorted table, by index label, and their heights.
ShownOrder ==
    LET e == CHOOSE e \in Rendered("sorted_table") : TRUE
    IN  [i \in DOMAIN e.data.rows |-> e.data.rows[i].index]

ShownHeights ==
    LET e == CHOOSE e \in Rendered("sorted_table") : TRUE
    IN  [i \in DOMAIN e.data.rows |-> e.data.rows[i].cells.Height]

Reverse(s) == [i \in DOMAIN s |-> s[Len(s) + 1 - i]]

\* The sort direction alone changed between two runs that show the table.
DirectionFlipped ==
    /\ Rendered("sorted_table") # {}
    /\ Rendered("sorted_table")' # {}
    /\ uploaded_file' = uploaded_file
    /\ widgets'.city = widgets.city
    /\ widgets'.sort # widgets.sort

\* C8 as claimed: for a fixed file and city the row order under one sort
\* direction is the exact reverse of the row order under the other.
C8_Claimed == [][DirectionFlipped => ShownOrder' = Reverse(ShownOrder)]_vars

\* C8, amended: for a fixed file and city the heights shown under one sort
\* direction are the reverse of the heights shown under the other, and the
\* row order is the exact reverse whenever no two rows of the city-filtered
\* set have the same height.
C8_ReversedUpToTies ==
    [][DirectionFlipped =>
          /\ ShownHeights' = Reverse(ShownHeights)
          /\ (\A j, k \in InCity(widgets.city) : HeightOf(j) = HeightOf(k) => j = k)
                => ShownOrder' = Reverse(ShownOrder)]_vars

\* A descending table of three rows, two of them of the same height.
C8_Witness ==
    /\ Rendered("sorted_table") # {}
    /\ widgets.sort = "Descending"
    /\ Len(ShownOrder) = 3
    /\ Cardinality(Range(ShownHeights)) = 2

\* C9: a workbook that parsed is parsed once: every run after the first
\* gets from load_data the stored table and counts, which are those of the
\* file as it was read, whatever earlier runs filtered, renamed or sorted.
C9_ParsedOnceAndUnchanged ==
    disk.valid =>
        /\ parse_count <= 1
        /\ uploaded_file # <<>> =>
              /\ parse_count = 1
              /\ disk \in DOMAIN cache
              /\ cache[disk] = loaded
              /\ loaded[2] = <<Len(disk.body), Len(disk.header)>>
              /\ loaded[1].columns = disk.header
              /\ Len(loaded[1].rows) = Len(disk.body)
              /\ \A k \in DOMAIN disk.body :
                    loaded[1].rows[k] = [index |-> k - 1, cells |-> disk.body[k]]

\* A run later than the first: the city, the direction and the slider were changed.
C9_Witness ==
    /\ disk.valid
    /\ uploaded_file # <<>>
    /\ parse_count = 1
    /\ "min" \in DOMAIN widgets
    /\ widgets.sort = "Descending"
    /\ widgets.min = 200
    /\ \E e \in Rendered("city_select") : widgets.city # e.options[1]

\* C10 as claimed: the slider runs from 0 to the integer part of the
\* greatest height of the city-filtered set, its default 100 lies within
\* that range, and the filtered-by-height set is the rows of the
\* city-filtered set at least as high as the selected minimum.
C10_Claimed ==
    \A s \in Rendered("slider") :
        LET S == InCity(widgets.city)
            high == {k \in S : HeightOf(k) >= widgets.min}
        IN  /\ s.min_value = 0
            /\ s.max_value = HeightOf(Tallest(S))
            /\ s.value = 100
            /\ s.value \in s.min_value..s.max_value
            /\ \A e \in Rendered("filtered_table") : Labels(e) = high
            /\ Rendered("filtered_table") = {} => high = {}

==========================================================================
